---- MODULE Spec2Model ----
(***************************************************************************)
(* A model of app.py, the Star Wars survey dashboard: one run of the       *)
(* script from load_data to the User Guide tab.  Data frames are objects   *)
(* on a heap, the script's names (df_raw, df_clean, ...) are references    *)
(* into it, every widget value is an input of the step that reads it.      *)
(***************************************************************************)
EXTENDS Integers, Sequences, FiniteSets, TLC

\* Bounds of the input tables: their columns, and their cells (columns x rows).
MaxCols == 3
MaxCells == 4

-----------------------------------------------------------------------------
(* Cells, columns, tables.                                                 *)

NA == [k |-> "na", v |-> 0, s |-> ""]
Num(x) == [k |-> "num", v |-> x, s |-> ""]
Str(x) == [k |-> "str", v |-> 0, s |-> x]
IsNA(c) == c.k = "na"

Column(name, dtype, vals) == [name |-> name, dtype |-> dtype, vals |-> vals]
Table(cols, n) == [cols |-> cols, n |-> n]

Range(f) == {f[i] : i \in DOMAIN f}
Names(t) == [i \in DOMAIN t.cols |-> t.cols[i].name]
HasColumn(t, name) == \E i \in DOMAIN t.cols : t.cols[i].name = name
\* df[name] for a label that occurs once.
Col(t, name) == t.cols[CHOOSE i \in DOMAIN t.cols : t.cols[i].name = name]
\* df[rows]: the rows at the kept positions, in order.
Pick(vals, keep) == [i \in DOMAIN keep |-> vals[keep[i]]]
TakeRows(t, keep) ==
    Table([i \in DOMAIN t.cols |-> [t.cols[i] EXCEPT !.vals = Pick(@, keep)]], Len(keep))
\* The positions a boolean mask keeps, in order.
RECURSIVE Positions(_, _)
Positions(mask, i) ==
    IF i > Len(mask) THEN <<>>
    ELSE (IF mask[i] THEN <<i>> ELSE <<>>) \o Positions(mask, i + 1)
\* df[mask]
Filter(t, mask) == TakeRows(t, Positions(mask, 1))
\* df[name] = column: replaces the column of that label, or appends one.
SetColumn(t, c) ==
    IF HasColumn(t, c.name)
    THEN [t EXCEPT !.cols = [i \in DOMAIN t.cols |->
                                IF t.cols[i].name = c.name THEN c ELSE t.cols[i]]]
    ELSE [t EXCEPT !.cols = Append(t.cols, c)]

IsNumericDtype(dtype) == dtype \in {"int32", "int64", "float64"}

-----------------------------------------------------------------------------
(* The survey's headers.                                                   *)

h_seen_films == "Have you seen any of the 6 films in the Star Wars franchise?"
h_is_fan == "Do you consider yourself to be a fan of the Star Wars film franchise?"
h_films_seen == "Which of the following Star Wars films have you seen? Please select all that apply."
h_film_ranking == "Please rank the Star Wars films in order of preference with 1 being your favorite film in the franchise and 6 being your least favorite film."
h_character_opinions == "Please state whether you view the following characters favorably, unfavorably, or are unfamiliar with him/her."
\* rename_mapping with two short names exchanged.
rename_mapping_swapped ==
    (h_seen_films :> "seen_films") @@ (h_is_fan :> "is_fan") @@
    (h_films_seen :> "film_ranking") @@ (h_film_ranking :> "films_seen") @@
    (h_character_opinions :> "character_opinions")

rename_mapping ==
    (h_seen_films :> "seen_films") @@ (h_is_fan :> "is_fan") @@
    (h_films_seen :> "films_seen") @@ (h_film_ranking :> "film_ranking") @@
    (h_character_opinions :> "character_opinions")

\* The header row of the files read, in the survey's order.
Header ==
    << "RespondentID", h_seen_films, h_is_fan, h_films_seen, "Unnamed: 4",
       h_film_ranking, h_character_opinions, "Gender", "Age",
       "Household Income", "Education", "Location (Census Region)" >>

\* The leading characters of the strings startswith is applied to (a string
\* is atomic to TLC); eight are enough to decide a seven-character prefix.
Spell(s) ==
    CASE s = "Unnamed" -> <<"U","n","n","a","m","e","d">>
      [] s = "Unnamed: 4" -> <<"U","n","n","a","m","e","d",":">>
      [] s = "RespondentID" -> <<"R","e","s","p","o","n","d","e">>
      [] s = h_seen_films -> <<"H","a","v","e"," ","y","o","u">>
      [] s = h_is_fan -> <<"D","o"," ","y","o","u"," ","c">>
      [] s = h_films_seen -> <<"W","h","i","c","h"," ","o","f">>
      [] s = h_film_ranking -> <<"P","l","e","a","s","e"," ","r">>
      [] s = h_character_opinions -> <<"P","l","e","a","s","e"," ","s">>
      [] s = "Gender" -> <<"G","e","n","d","e","r">>
      [] s = "Age" -> <<"A","g","e">>
      [] s = "Household Income" -> <<"H","o","u","s","e","h","o","l">>
      [] s = "Education" -> <<"E","d","u","c","a","t","i","o">>
      [] s = "Location (Census Region)" -> <<"L","o","c","a","t","i","o","n">>
      [] s = "tab_line" -> <<"t","a","b","_","l","i","n","e">>

\* str.startswith(prefix)
StartsWith(s, prefix) ==
    LET p == Spell(prefix)
        c == Spell(s)
    IN  Len(c) >= Len(p) /\ SubSeq(c, 1, Len(p)) = p

-----------------------------------------------------------------------------
(* The files load_data may find: what each of the two parses yields.       *)

ParseError == Table(<<>>, -1)

\* The values a column of the survey holds, besides a missing cell.
Answers(name) ==
    CASE name = "RespondentID" -> {Num(2), Num(4)}
      [] name = h_seen_films -> {Str("Yes")}
      [] name = h_is_fan -> {Str("Yes")}
      [] name = h_films_seen -> {Str("Star Wars: Episode I  The Phantom Menace")}
      [] name = "Unnamed: 4" -> {Str("Star Wars: Episode II  Attack of the Clones")}
      [] name = h_film_ranking -> {Str("3")}
      [] name = h_character_opinions -> {Str("Very favorably")}
      [] name = "Gender" -> {Str("Male")}
      [] name = "Age" -> {Str("18-29")}
      [] name = "Household Income" -> {Str("$0 - $24,999")}
      [] name = "Education" -> {Str("Bachelor degree")}
      [] name = "Location (Census Region)" -> {Str("Pacific")}

\* The questions a respondent may leave unanswered.
Optional ==
    {"RespondentID", h_is_fan, h_film_ranking, "Gender", "Age",
     "Location (Census Region)"}

Cells(name) == Answers(name) \cup (IF name \in Optional THEN {NA} ELSE {})

\* read_csv's dtype of a parsed column.
InferDtype(vals) ==
    IF Len(vals) = 0 THEN "object"
    ELSE IF \A i \in DOMAIN vals : vals[i].k \in {"na", "num"}
         THEN (IF \E i \in DOMAIN vals : IsNA(vals[i]) THEN "float64" ELSE "int64")
         ELSE "object"

RECURSIVE Ascending(_)
Ascending(S) ==
    IF S = {} THEN <<>>
    ELSE LET m == CHOOSE x \in S : \A y \in S : x <= y
         IN  <<m>> \o Ascending(S \ {m})

RECURSIVE ColumnsOf(_, _)
ColumnsOf(names, n) ==
    IF names = <<>> THEN {<<>>}
    ELSE {<<Column(Head(names), InferDtype(vals), vals)>> \o rest :
             vals \in [1..n -> Cells(Head(names))], rest \in ColumnsOf(Tail(names), n)}

\* The columns a file may hold: up to MaxCols of the header's, in its order.
ColumnChoices ==
    {Ascending(S) : S \in {S \in SUBSET (1..Len(Header)) : Cardinality(S) <= MaxCols}}

\* The tables of n rows with the header's columns at positions ix.
TablesOf(ix, n) ==
    {Table(cols, n) : cols \in ColumnsOf([i \in DOMAIN ix |-> Header[ix[i]]], n)}

\* A comma-separated file read with a tab delimiter: one column, named by the
\* whole header line.
TabLine(n) == Table(<<Column("tab_line", "object", [i \in 1..n |-> Str("line")])>>, n)

\* The files that hold table t: comma-separated, or tab-separated.
FilesOf(t) ==
    {[tab |-> TabLine(t.n), comma |-> t]}
    \cup (IF Len(t.cols) # 1 THEN {[tab |-> t, comma |-> ParseError]} ELSE {})

\* The files read_csv raises on, at the first or at the second parse.
BadFiles ==
    {[tab |-> ParseError, comma |-> ParseError],
     [tab |-> TabLine(0), comma |-> ParseError],
     [tab |-> TabLine(1), comma |-> ParseError]}

-----------------------------------------------------------------------------
(* load_data and the cleaning steps, as functions of tables.               *)
\* load_data retrying with a comma whenever the tab parse has at most one column.
load_data_retry_empty(f) ==
    IF f.tab = ParseError
    THEN [df |-> ParseError, reads |-> <<"\t">>, error |-> TRUE]
    ELSE IF Len(f.tab.cols) <= 1
         THEN [df |-> f.comma, reads |-> <<"\t", ",">>, error |-> f.comma = ParseError]
         ELSE [df |-> f.tab, reads |-> <<"\t">>, error |-> FALSE]

\* load_data with the comma retry outside the try block: its failure is not
\* turned into None.
load_data_retry_uncaught(f) ==
    IF f.tab = ParseError
    THEN [df |-> ParseError, reads |-> <<"\t">>, error |-> TRUE]
    ELSE IF Len(f.tab.cols) = 1
         THEN [df |-> f.comma, reads |-> <<"\t", ",">>, error |-> FALSE]
         ELSE [df |-> f.tab, reads |-> <<"\t">>, error |-> FALSE]

\* load_data(filepath): the table returned (ParseError for None), the
\* delimiters tried in order, and whether st.error was called.
load_data(f) ==
    IF f.tab = ParseError
    THEN [df |-> ParseError, reads |-> <<"\t">>, error |-> TRUE]
    ELSE IF Len(f.tab.cols) = 1
         THEN [df |-> f.comma, reads |-> <<"\t", ",">>, error |-> f.comma = ParseError]
         ELSE [df |-> f.tab, reads |-> <<"\t">>, error |-> FALSE]
\* unnamed_cols comparing the whole name: col == "Unnamed".
unnamed_cols_exact(t) == SelectSeq(Names(t), LAMBDA name : name = "Unnamed")

\* [col for col in df_clean.columns if col.startswith("Unnamed")]
unnamed_cols(t) == SelectSeq(Names(t), LAMBDA name : StartsWith(name, "Unnamed"))

\* df.drop(columns=labels)
Drop(t, labels) ==
    [t EXCEPT !.cols = SelectSeq(t.cols, LAMBDA c : c.name \notin Range(labels))]

\* {k: v for k, v in rename_mapping.items() if k in df_clean.columns}
PresentMapping(t) ==
    [k \in {k \in DOMAIN rename_mapping : HasColumn(t, k)} |-> rename_mapping[k]]

\* df.rename(columns=mapping)
Rename(t, mapping) ==
    [t EXCEPT !.cols = [i \in DOMAIN t.cols |->
        IF t.cols[i].name \in DOMAIN mapping
        THEN [t.cols[i] EXCEPT !.name = mapping[@]]
        ELSE t.cols[i]]]

\* The non-missing values of a numeric column, ascending.
RECURSIVE Sorted(_)
Sorted(vals) ==
    IF vals = <<>> THEN <<>>
    ELSE LET i == CHOOSE i \in DOMAIN vals : \A j \in DOMAIN vals : vals[i] <= vals[j]
         IN  <<vals[i]>> \o Sorted(SubSeq(vals, 1, i - 1) \o SubSeq(vals, i + 1, Len(vals)))
Present(vals) == SelectSeq(vals, LAMBDA c : ~IsNA(c))

\* Series.median(): NaN for a column with no value; the mean of the two
\* middle values of an even count (the model's numbers make it whole).
Median(vals) ==
    LET s == Sorted([i \in DOMAIN Present(vals) |-> Present(vals)[i].v])
        n == Len(s)
    IN  IF n = 0 THEN NA
        ELSE IF n % 2 = 1 THEN Num(s[(n + 1) \div 2])
        ELSE Num((s[n \div 2] + s[n \div 2 + 1]) \div 2)

\* Series.fillna(value): filling with NaN fills nothing.
FillNA(vals, value) == [i \in DOMAIN vals |-> IF IsNA(vals[i]) THEN value ELSE vals[i]]

\* One pass of the fill loop's body.
FillColumn(c) ==
    IF IsNumericDtype(c.dtype)
    THEN [c EXCEPT !.vals = FillNA(@, Median(c.vals))]
    ELSE [c EXCEPT !.vals = FillNA(@, Str("Not Specified"))]

\* for col in df_clean.columns: df_clean[col] = df_clean[col].fillna(...)
HandleMissing(t) == [t EXCEPT !.cols = [i \in DOMAIN t.cols |-> FillColumn(t.cols[i])]]

\* for col in select_dtypes(include=["object"]): astype("string")
ObjectToString(t) ==
    [t EXCEPT !.cols = [i \in DOMAIN t.cols |->
        IF t.cols[i].dtype = "object" THEN [t.cols[i] EXCEPT !.dtype = "string"]
        ELSE t.cols[i]]]

-----------------------------------------------------------------------------
(* The script's state.                                                     *)

VARIABLES
    file,             \* star_wars.csv: what each parse of it yields
    reads,            \* the delimiters read_csv has been called with
    heap,             \* the live DataFrame objects, by reference
    df_raw, df_clean, cluster_data, df_model, df_dashboard, df_geo,
    numeric_cols, predictors, selected_genders, selected_ages, csv_data,
    defined,          \* the names bound so far, among those of the line above
    out,              \* the messages written to the page, in order
    charts,           \* the charts, models and maps rendered
    pc,               \* the step to run next
    status,           \* running, done, stopped (st.stop) or raised
    cleaned           \* history: df_clean's table at the end of the Data Cleaning tab

vars ==
    << file, reads, heap, df_raw, df_clean, cluster_data, df_model, df_dashboard,
       df_geo, numeric_cols, predictors, selected_genders, selected_ages, csv_data,
       defined, out, charts, pc, status, cleaned >>

None == 0
data_path == "star_wars.csv"

Steps ==
    << "Load Data", "df_clean", "Drop Unwanted Columns", "Rename Columns",
       "Handle Missing Data", "Final Cleaned Data", "Fan Analysis", "Film Viewing",
       "Demographics", "Film Ranking", "Character Opinions",
       "Basic Statistical Reports", "Clustering", "Predictive Modeling",
       "Enhanced Dashboard & Export", "Geospatial Visualization",
       "User Guide & Feedback", "done" >>
StepNo(step) == CHOOSE i \in DOMAIN Steps : Steps[i] = step
After(step) == Steps[StepNo(step) + 1]
\* The step has run to its end.
Completed(step) == StepNo(pc) > StepNo(step)

\* The reference of a new object: the first one free.
NewRef(h) ==
    CHOOSE r \in 1..(Cardinality(DOMAIN h) + 1) :
        r \notin DOMAIN h /\ \A q \in 1..(r - 1) : q \in DOMAIN h
\* A new object: the heap holding it, and its reference.
Alloc(h, t) == [heap |-> (NewRef(h) :> t) @@ h, ref |-> NewRef(h)]
\* An assignment in place of a copy: the same object under a second name.
CopyAlias(h, r) == [heap |-> h, ref |-> r]

\* DataFrame.copy(): a new object with the same table.
Copy(h, r) == Alloc(h, h[r])
\* df[name] = column, on the object r names.
Assign(h, r, c) == [h EXCEPT ![r] = SetColumn(@, c)]
\* The objects still referenced once the names are rebound.
Collect(h, roots) == [r \in DOMAIN h \cap roots |-> h[r]]
Roots == {df_raw, df_clean, cluster_data, df_model, df_dashboard, df_geo}

Message(view, text, arg) == [view |-> view, text |-> text, arg |-> arg]
Write(view, text, arg) == out' = Append(out, Message(view, text, arg))
Goto(step) == pc' = step /\ status' = IF step = "done" THEN "done" ELSE "running"
At(step) == pc = step /\ status = "running"

Init ==
    /\ \/ file \in BadFiles
       \/ \E ix \in ColumnChoices : \E n \in (IF ix = <<>> THEN {0} ELSE 0..(MaxCells \div Len(ix))) :
             \E t \in TablesOf(ix, n) : file \in FilesOf(t)
    /\ reads = <<>>
    /\ heap = <<>>
    /\ df_raw = None /\ df_clean = None /\ cluster_data = None
    /\ df_model = None /\ df_dashboard = None /\ df_geo = None
    /\ numeric_cols = <<>> /\ predictors = <<>>
    /\ selected_genders = {} /\ selected_ages = {} /\ csv_data = <<>>
    /\ defined = {}
    /\ out = <<>>
    /\ charts = {}
    /\ pc = "Load Data"
    /\ status = "running"
    /\ cleaned = ParseError

\* df_raw = load_data(data_path); if df_raw is None: st.stop()
LoadData ==
    /\ At("Load Data")
    /\ LET r == load_data(file)
       IN  /\ reads' = r.reads
           /\ IF r.error
              THEN /\ Write("Load Data", "Error reading file '{filepath}': {e}", data_path)
                   /\ df_raw' = None
                   /\ heap' = heap
                   /\ pc' = pc /\ status' = "stopped"
              ELSE /\ out' = out
                   /\ df_raw' = Alloc(heap, r.df).ref
                   /\ heap' = Alloc(heap, r.df).heap
                   /\ Goto(After(pc))
    /\ defined' = defined \cup {"df_raw"}
    /\ UNCHANGED << file, df_clean, cluster_data, df_model, df_dashboard, df_geo,
                    numeric_cols, predictors, selected_genders, selected_ages,
                    csv_data, charts, cleaned >>

\* df_clean = df_raw.copy(), the tabs, and the Original Data preview
CopyRaw ==
    /\ At("df_clean")
    /\ df_clean' = Copy(heap, df_raw).ref
    /\ heap' = Copy(heap, df_raw).heap
    /\ defined' = defined \cup {"df_clean"}
    /\ Goto(After(pc))
    /\ UNCHANGED << file, reads, df_raw, cluster_data, df_model, df_dashboard, df_geo,
                    numeric_cols, predictors, selected_genders, selected_ages,
                    csv_data, out, charts, cleaned >>

\* df_clean = df_clean.drop(columns=unnamed_cols)
DropUnwantedColumns ==
    /\ At("Drop Unwanted Columns")
    /\ LET new == Alloc(heap, Drop(heap[df_clean], unnamed_cols(heap[df_clean])))
       IN  /\ df_clean' = new.ref
           /\ Goto(After(pc))
           /\ UNCHANGED << file, reads, df_raw, cluster_data, df_model, df_dashboard,
                           df_geo, numeric_cols, predictors, selected_genders,
                           selected_ages, csv_data, defined, out, charts, cleaned >>
           /\ heap' = Collect(new.heap, Roots')

\* df_clean = df_clean.rename(columns={...})
RenameColumns ==
    /\ At("Rename Columns")
    /\ LET new == Alloc(heap, Rename(heap[df_clean], PresentMapping(heap[df_clean])))
       IN  /\ df_clean' = new.ref
           /\ Goto(After(pc))
           /\ UNCHANGED << file, reads, df_raw, cluster_data, df_model, df_dashboard,
                           df_geo, numeric_cols, predictors, selected_genders,
                           selected_ages, csv_data, defined, out, charts, cleaned >>
           /\ heap' = Collect(new.heap, Roots')
\* The fill loop assigning into df_raw's object.
HandleMissingDataOnRaw ==
    /\ At("Handle Missing Data")
    /\ heap' = [heap EXCEPT ![df_raw] = HandleMissing(@)]
    /\ Goto(After(pc))
    /\ UNCHANGED << file, reads, df_raw, df_clean, cluster_data, df_model, df_dashboard,
                    df_geo, numeric_cols, predictors, selected_genders, selected_ages,
                    csv_data, defined, out, charts, cleaned >>

\* The fill loop: every column of the object df_clean names is assigned in place.
HandleMissingData ==
    /\ At("Handle Missing Data")
    /\ heap' = [heap EXCEPT ![df_clean] = HandleMissing(@)]
    /\ Goto(After(pc))
    /\ UNCHANGED << file, reads, df_raw, df_clean, cluster_data, df_model, df_dashboard,
                    df_geo, numeric_cols, predictors, selected_genders, selected_ages,
                    csv_data, defined, out, charts, cleaned >>

\* The object columns become string columns, in place.
FinalCleanedData ==
    /\ At("Final Cleaned Data")
    /\ heap' = [heap EXCEPT ![df_clean] = ObjectToString(@)]
    /\ cleaned' = heap'[df_clean]
    /\ Goto(After(pc))
    /\ UNCHANGED << file, reads, df_raw, df_clean, cluster_data, df_model, df_dashboard,
                    df_geo, numeric_cols, predictors, selected_genders, selected_ages,
                    csv_data, defined, out, charts >>

-----------------------------------------------------------------------------
(* TAB 2: Basic Visualization.                                             *)

NotFound == "Column '{col}' not found."
\* A view without its guard: the chart code runs whether or not the column exists.
ColumnViewUnguarded(view, col, text) ==
    charts' = charts \cup {<<view, col>>} /\ out' = out

\* if col in df_clean.columns: <chart> else: st.write(<not found>)
ColumnView(view, col, text) ==
    IF HasColumn(heap[df_clean], col)
    THEN charts' = charts \cup {<<view, col>>} /\ out' = out
    ELSE Write(view, text, col) /\ charts' = charts

FanAnalysis ==
    /\ At("Fan Analysis")
    /\ ColumnView("Fan Analysis", "is_fan", NotFound)
    /\ Goto(After(pc))
    /\ UNCHANGED << file, reads, heap, df_raw, df_clean, cluster_data, df_model,
                    df_dashboard, df_geo, numeric_cols, predictors, selected_genders,
                    selected_ages, csv_data, defined, cleaned >>

FilmViewing ==
    /\ At("Film Viewing")
    /\ ColumnView("Film Viewing", "seen_films", NotFound)
    /\ Goto(After(pc))
    /\ UNCHANGED << file, reads, heap, df_raw, df_clean, cluster_data, df_model,
                    df_dashboard, df_geo, numeric_cols, predictors, selected_genders,
                    selected_ages, csv_data, defined, cleaned >>

demographics ==
    <<"Gender", "Age", "Household Income", "Education", "Location (Census Region)">>

\* for col in [...]: a chart for each column present, a message for each absent
Demographics ==
    /\ At("Demographics")
    /\ LET absent == SelectSeq(demographics, LAMBDA col : ~HasColumn(heap[df_clean], col))
       IN  /\ out' = out \o [i \in DOMAIN absent |-> Message("Demographics", NotFound, absent[i])]
           /\ charts' = charts \cup
                  {<<"Demographics", col>> : col \in Range(demographics) \ Range(absent)}
    /\ Goto(After(pc))
    /\ UNCHANGED << file, reads, heap, df_raw, df_clean, cluster_data, df_model,
                    df_dashboard, df_geo, numeric_cols, predictors, selected_genders,
                    selected_ages, csv_data, defined, cleaned >>

\* The numbers pd.to_numeric reads from the survey's strings.
Numerals == ("1" :> 1) @@ ("2" :> 2) @@ ("3" :> 3) @@ ("4" :> 4) @@ ("5" :> 5) @@ ("6" :> 6)

\* pd.to_numeric(series, errors='coerce'): what does not parse becomes NaN.
\* The result has a numeric dtype whatever the values; float64 and int64
\* stand for the dtype with and without a missing value.
ToNumeric(c) ==
    LET vals == [i \in DOMAIN c.vals |->
                   IF c.vals[i].k = "str"
                   THEN (IF c.vals[i].s \in DOMAIN Numerals
                         THEN Num(Numerals[c.vals[i].s]) ELSE NA)
                   ELSE c.vals[i]]
    IN  [vals |-> vals,
         dtype |-> IF \E i \in DOMAIN vals : IsNA(vals[i]) THEN "float64" ELSE "int64"]

\* df_clean['film_ranking_numeric'] = pd.to_numeric(df_clean['film_ranking'], ...)
FilmRanking ==
    /\ At("Film Ranking")
    /\ ColumnView("Film Ranking", "film_ranking", NotFound)
    /\ heap' = IF HasColumn(heap[df_clean], "film_ranking")
               THEN LET n == ToNumeric(Col(heap[df_clean], "film_ranking"))
                    IN  Assign(heap, df_clean, Column("film_ranking_numeric", n.dtype, n.vals))
               ELSE heap
    /\ Goto(After(pc))
    /\ UNCHANGED << file, reads, df_raw, df_clean, cluster_data, df_model,
                    df_dashboard, df_geo, numeric_cols, predictors, selected_genders,
                    selected_ages, csv_data, defined, cleaned >>

CharacterOpinions ==
    /\ At("Character Opinions")
    /\ ColumnView("Character Opinions", "character_opinions", NotFound)
    /\ Goto(After(pc))
    /\ UNCHANGED << file, reads, heap, df_raw, df_clean, cluster_data, df_model,
                    df_dashboard, df_geo, numeric_cols, predictors, selected_genders,
                    selected_ages, csv_data, defined, cleaned >>

-----------------------------------------------------------------------------
(* TAB 3: Basic Statistical Reports.                                       *)

\* df.select_dtypes(include=["number"]).columns
NumericColumns(t) ==
    LET numeric == SelectSeq(t.cols, LAMBDA c : IsNumericDtype(c.dtype))
    IN  [i \in DOMAIN numeric |-> numeric[i].name]

\* describe(include='all') raises ValueError on a frame without columns;
\* numeric_cols is bound after it.
StatisticalReports ==
    /\ At("Basic Statistical Reports")
    /\ IF heap[df_clean].cols = <<>>
       THEN /\ pc' = pc /\ status' = "raised"
            /\ UNCHANGED << numeric_cols, defined >>
       ELSE /\ numeric_cols' = NumericColumns(heap[df_clean])
            /\ defined' = defined \cup {"numeric_cols"}
            /\ Goto(After(pc))
    /\ UNCHANGED << file, reads, heap, df_raw, df_clean, cluster_data, df_model,
                    df_dashboard, df_geo, predictors, selected_genders,
                    selected_ages, csv_data, out, charts, cleaned >>

-----------------------------------------------------------------------------
(* TAB 4: Clustering & Predictive Modeling.                                *)

\* df[[name, ...]]
SelectColumns(t, names) == Table([i \in DOMAIN names |-> Col(t, names[i])], t.n)
\* df.dropna(subset=names): the rows with a value in each of those columns.
DropNASubset(t, names) ==
    Filter(t, [i \in 1..t.n |->
                 \A j \in DOMAIN t.cols : t.cols[j].name \in names => ~IsNA(t.cols[j].vals[i])])
\* df.dropna()
DropNA(t) == DropNASubset(t, Range(Names(t)))

\* st.slider("Number of Clusters", min_value=2, max_value=10, value=3)
KMin == 2
KMax == 10

\* cluster_data = df_clean[[x, y]].dropna().copy(); KMeans raises ValueError
\* when it is given fewer rows than clusters, else labels each row.  With one
\* column chosen for both axes the frame holds two columns of one name, and
\* the chart of such a frame is either drawn or raises.
Clustering ==
    /\ At("Clustering")
    /\ UNCHANGED << file, reads, df_raw, df_clean, df_model, df_dashboard, df_geo,
                    numeric_cols, predictors, selected_genders, selected_ages,
                    csv_data, cleaned >>
    /\ IF Len(numeric_cols) >= 2
       THEN \E x_cluster \in Range(numeric_cols), y_cluster \in Range(numeric_cols),
               k \in KMin..KMax :
              LET sel == Alloc(heap, DropNA(SelectColumns(heap[df_clean],
                                                          <<x_cluster, y_cluster>>)))
                  new == Copy(sel.heap, sel.ref)
                  n == new.heap[new.ref].n
              IN  /\ cluster_data' = new.ref
                  /\ defined' = defined \cup {"cluster_data"}
                  /\ out' = out
                  /\ IF n < k
                     THEN /\ heap' = Collect(new.heap, Roots')
                          /\ charts' = charts
                          /\ pc' = pc /\ status' = "raised"
                     ELSE \E labels \in [1..n -> 0..(k - 1)],
                             drawn \in IF x_cluster = y_cluster THEN BOOLEAN
                                                                ELSE {TRUE} :
                            /\ heap' = Collect(
                                   Assign(new.heap, new.ref,
                                          Column("cluster", "int32",
                                                 [i \in 1..n |-> Num(labels[i])])),
                                   Roots')
                            /\ IF drawn
                               THEN /\ charts' = charts \cup
                                                     {<<"Clustering", "cluster">>}
                                    /\ Goto(After(pc))
                               ELSE /\ charts' = charts
                                    /\ pc' = pc /\ status' = "raised"
       ELSE /\ Write("Clustering", "Not enough numeric columns for clustering.", "")
            /\ Goto(After(pc))
            /\ UNCHANGED << heap, cluster_data, defined, charts >>

\* str(x).strip().lower(), of the strings an answer column holds.
StripLower(s) ==
    CASE s = "Yes" -> "yes"
      [] s = "Not Specified" -> "not specified"
      [] OTHER -> s
\* The target column as "yes"/"no" strings in place of 1/0.
is_fan_binary_text(t) ==
    LET c == Col(t, "is_fan")
    IN  Column("is_fan_binary", "object",
               [i \in DOMAIN c.vals |->
                   IF c.vals[i].k = "str" /\ StripLower(c.vals[i].s) = "yes"
                   THEN Str("yes") ELSE Str("no")])

\* df_model["is_fan"].apply(lambda x: 1 if str(x).strip().lower() == "yes" else 0)
\* apply on an empty column keeps the column's dtype.
is_fan_binary(t) ==
    LET c == Col(t, "is_fan")
    IN  Column("is_fan_binary",
               IF t.n = 0 THEN c.dtype ELSE "int64",
               [i \in DOMAIN c.vals |->
                   IF c.vals[i].k = "str" /\ StripLower(c.vals[i].s) = "yes"
                   THEN Num(1) ELSE Num(0)])

RECURSIVE SubSeqs(_)
SubSeqs(q) ==
    IF q = <<>> THEN {<<>>}
    ELSE LET rest == SubSeqs(Tail(q))
         IN  rest \cup {<<Head(q)>> \o r : r \in rest}

\* train_test_split(test_size=0.3) and LogisticRegression.fit: ValueError when
\* the training part is empty or holds one class; whether both classes of y
\* reach the training part is the shuffle's choice.
FitOutcomes(t, selected_predictors) ==
    LET keep == Positions([i \in 1..t.n |->
                    \A j \in DOMAIN t.cols :
                        t.cols[j].name \in Range(selected_predictors)
                            => ~IsNA(t.cols[j].vals[i])], 1)
        y == Pick(Col(t, "is_fan_binary").vals, keep)
        n == Len(keep)
        test == (3 * n + 9) \div 10
    IN  IF n - test >= 2 /\ Cardinality(Range(y)) >= 2 THEN {"fitted", "raised"}
        ELSE {"raised"}

PredictiveModeling ==
    /\ At("Predictive Modeling")
    /\ UNCHANGED << file, reads, df_raw, df_clean, cluster_data, df_dashboard, df_geo,
                    numeric_cols, selected_genders, selected_ages, csv_data, cleaned >>
    /\ IF HasColumn(heap[df_clean], "is_fan")
       THEN LET cp == Copy(heap, df_clean)
                dn == Alloc(cp.heap, DropNASubset(cp.heap[cp.ref], {"is_fan"}))
                h == Assign(dn.heap, dn.ref, is_fan_binary(dn.heap[dn.ref]))
            IN  /\ df_model' = dn.ref
                /\ predictors' = NumericColumns(h[dn.ref])
                /\ defined' = defined \cup {"df_model", "predictors"}
                /\ heap' = Collect(h, Roots')
                /\ charts' = charts \cup {<<"Predictive Modeling", "is_fan">>}
                /\ IF predictors' # <<>>
                   THEN /\ out' = out
                        /\ \E selected_predictors \in SubSeqs(predictors') :
                              IF selected_predictors # <<>>
                              THEN \E fit \in FitOutcomes(h[dn.ref], selected_predictors) :
                                     IF fit = "fitted" THEN Goto(After(pc))
                                     ELSE pc' = pc /\ status' = "raised"
                              ELSE Goto(After(pc))
                   ELSE /\ Write("Predictive Modeling",
                                 "No numeric predictors available for predictive modeling.", "")
                        /\ Goto(After(pc))
       ELSE /\ Write("Predictive Modeling", NotFound, "is_fan")
            /\ Goto(After(pc))
            /\ UNCHANGED << heap, df_model, predictors, defined, charts >>

-----------------------------------------------------------------------------
(* TAB 5: Enhanced Dashboard & Export.                                     *)

\* df[name].unique(), as the set the multiselect offers.
Unique(t, name) == Range(Col(t, name).vals)
\* The filter keeping the rows whose value is not selected.
WhereNotIn(t, name, selected) ==
    Filter(t, [i \in 1..t.n |-> Col(t, name).vals[i] \notin selected])

\* df[df[name].isin(selected)]
WhereIn(t, name, selected) ==
    Filter(t, [i \in 1..t.n |-> Col(t, name).vals[i] \in selected])

\* The strings of the survey that hold a comma: to_csv quotes them.
WithComma == {"$0 - $24,999", h_character_opinions}
Digits == (1 :> "1") @@ (2 :> "2") @@ (3 :> "3") @@ (4 :> "4") @@ (5 :> "5") @@ (6 :> "6")
Decimals ==
    (1 :> "1.0") @@ (2 :> "2.0") @@ (3 :> "3.0") @@ (4 :> "4.0") @@ (5 :> "5.0") @@ (6 :> "6.0")
Field(text) == [text |-> text, quoted |-> text \in WithComma]
\* One cell of the CSV: empty for a missing value, a float with its decimal.
FormatCell(c, dtype) ==
    CASE c.k = "na" -> Field("")
      [] c.k = "str" -> Field(c.s)
      [] c.k = "num" -> Field(IF dtype = "float64" THEN Decimals[c.v] ELSE Digits[c.v])
\* df.to_csv(index=False): the header line, then one line per row.
ToCsv(t) ==
    <<[j \in DOMAIN t.cols |-> Field(t.cols[j].name)]>>
    \o [i \in 1..t.n |-> [j \in DOMAIN t.cols |-> FormatCell(t.cols[j].vals[i], t.cols[j].dtype)]]

\* The copy of df_clean, narrowed by the two multiselects, and its CSV.
Dashboard ==
    /\ At("Enhanced Dashboard & Export")
    /\ UNCHANGED << file, reads, df_raw, df_clean, cluster_data, df_model, df_geo,
                    numeric_cols, predictors, out, charts, cleaned >>
    /\ LET cp == Copy(heap, df_clean)
           byGender == HasColumn(cp.heap[cp.ref], "Gender")
       IN  \E genders \in (IF byGender THEN SUBSET Unique(cp.heap[cp.ref], "Gender") ELSE {{}}) :
             LET g == IF byGender
                      THEN Alloc(cp.heap, WhereIn(cp.heap[cp.ref], "Gender", genders))
                      ELSE cp
                 byAge == HasColumn(g.heap[g.ref], "Age")
             IN  \E ages \in (IF byAge THEN SUBSET Unique(g.heap[g.ref], "Age") ELSE {{}}) :
                   LET a == IF byAge
                            THEN Alloc(g.heap, WhereIn(g.heap[g.ref], "Age", ages))
                            ELSE g
                   IN  /\ df_dashboard' = a.ref
                       /\ selected_genders' = IF byGender THEN genders ELSE selected_genders
                       /\ selected_ages' = IF byAge THEN ages ELSE selected_ages
                       /\ defined' = defined \cup {"df_dashboard", "csv_data"}
                              \cup (IF byGender THEN {"selected_genders"} ELSE {})
                              \cup (IF byAge THEN {"selected_ages"} ELSE {})
                       /\ csv_data' = ToCsv(a.heap[a.ref])
                       /\ heap' = Collect(a.heap, Roots')
    /\ Goto(After(pc))

-----------------------------------------------------------------------------
(* TAB 6: Geospatial Visualization.                                        *)

region_coords ==
    ("New England" :> [lat |-> 42, lon |-> -71]) @@
    ("Mid-Atlantic" :> [lat |-> 40, lon |-> -74]) @@
    ("East North Central" :> [lat |-> 41, lon |-> -87]) @@
    ("West North Central" :> [lat |-> 39, lon |-> -95]) @@
    ("South Atlantic" :> [lat |-> 33, lon |-> -80]) @@
    ("East South Central" :> [lat |-> 32, lon |-> -85]) @@
    ("West South Central" :> [lat |-> 31, lon |-> -100]) @@
    ("Mountain" :> [lat |-> 39, lon |-> -105]) @@
    ("Pacific" :> [lat |-> 37, lon |-> -120])

\* df_geo[col].isin(region_coords.keys())
InRegions(c) == c.k = "str" /\ c.s \in DOMAIN region_coords

\* df_geo["Location (Census Region)"].apply(lambda x: region_coords[x][axis])
Coordinate(t, axis) ==
    LET c == Col(t, "Location (Census Region)")
    IN  Column(axis, IF t.n = 0 THEN c.dtype ELSE "float64",
               [i \in DOMAIN c.vals |->
                   Num(IF axis = "lat" THEN region_coords[c.vals[i].s].lat
                       ELSE region_coords[c.vals[i].s].lon)])

Geospatial ==
    /\ At("Geospatial Visualization")
    /\ UNCHANGED << file, reads, df_raw, df_clean, cluster_data, df_model, df_dashboard,
                    numeric_cols, predictors, selected_genders, selected_ages,
                    csv_data, cleaned >>
    /\ IF HasColumn(heap[df_clean], "Location (Census Region)")
       THEN LET cp == Copy(heap, df_clean)
                t == cp.heap[cp.ref]
                known == Alloc(cp.heap,
                           Filter(t, [i \in 1..t.n |->
                                        InRegions(Col(t, "Location (Census Region)").vals[i])]))
                lat == Assign(known.heap, known.ref, Coordinate(known.heap[known.ref], "lat"))
                lon == Assign(lat, known.ref, Coordinate(lat[known.ref], "lon"))
            IN  /\ df_geo' = known.ref
                /\ defined' = defined \cup {"df_geo"}
                /\ heap' = Collect(lon, Roots')
                /\ charts' = charts \cup {<<"Geospatial Visualization", "Location (Census Region)">>}
                /\ out' = out
       ELSE /\ Write("Geospatial Visualization", "No '{col}' column found.",
                     "Location (Census Region)")
            /\ UNCHANGED << heap, df_geo, defined, charts >>
    /\ Goto(After(pc))

-----------------------------------------------------------------------------
(* TAB 7: User Guide & Feedback.                                           *)

UserGuide ==
    /\ At("User Guide & Feedback")
    /\ \E submit \in BOOLEAN :
          IF submit THEN Write("User Guide & Feedback", "Thank you for your feedback!", "")
          ELSE out' = out
    /\ Goto(After(pc))
    /\ UNCHANGED << file, reads, heap, df_raw, df_clean, cluster_data, df_model,
                    df_dashboard, df_geo, numeric_cols, predictors, selected_genders,
                    selected_ages, csv_data, defined, charts, cleaned >>

Next ==
    \/ LoadData
    \/ CopyRaw
    \/ DropUnwantedColumns
    \/ RenameColumns
    \/ HandleMissingData
    \/ FinalCleanedData
    \/ FanAnalysis
    \/ FilmViewing
    \/ Demographics
    \/ FilmRanking
    \/ CharacterOpinions
    \/ StatisticalReports
    \/ Clustering
    \/ PredictiveModeling
    \/ Dashboard
    \/ Geospatial
    \/ UserGuide

Spec == Init /\ [][Next]_vars

-----------------------------------------------------------------------------
(* The claims.                                                             *)

Raw == heap[df_raw]
Clean == heap[df_clean]
\* The step has run: to its end, or up to the exception it raised.
Ran(step) == Completed(step) \/ (pc = step /\ status = "raised")
TabYieldsOneColumn == file.tab # ParseError /\ Len(file.tab.cols) = 1
Unreadable == file.tab = ParseError \/ (TabYieldsOneColumn /\ file.comma = ParseError)
\* The raw table's columns that Drop Unwanted Columns is to keep.
Wanted == SelectSeq(Raw.cols, LAMBDA c : ~StartsWith(c.name, "Unnamed"))
Missing(t) == {<<j, i>> \in (DOMAIN t.cols) \X (1..t.n) : IsNA(t.cols[j].vals[i])}

\* C1: load_data reads the file with a tab first; it reads it again with a
\* comma if and only if the tab parse yielded exactly one column, and then
\* returns the comma-parsed table; with zero, two or more columns it returns
\* the tab-parsed table and the comma parse is never attempted.
C1_DelimiterFallback ==
    ("df_raw" \in defined /\ ~Unreadable) =>
        /\ reads = IF TabYieldsOneColumn THEN <<"\t", ",">> ELSE <<"\t">>
        /\ df_raw # None
        /\ Raw = IF TabYieldsOneColumn THEN file.comma ELSE file.tab

C1_Witness ==
    /\ "df_raw" \in defined
    /\ reads = <<"\t", ",">>
    /\ df_raw # None
    /\ Len(Raw.cols) >= 2
    /\ Raw = file.comma

\* C2: when read_csv raises, at the tab parse or at the comma retry, load_data
\* writes an error message and returns None, and the script stops there: no
\* cleaned copy, no object, no chart, no further message, no further step.
C2_ReadErrorStops ==
    (reads # <<>> /\ Unreadable) =>
        /\ status = "stopped" /\ pc = "Load Data"
        /\ df_raw = None /\ df_clean = None /\ "df_clean" \notin defined
        /\ DOMAIN heap = {}
        /\ out = <<Message("Load Data", "Error reading file '{filepath}': {e}", data_path)>>
        /\ charts = {}

C2_Witness ==
    /\ status = "stopped"
    /\ reads = <<"\t", ",">>
    /\ file.comma = ParseError
    /\ Len(out) = 1

\* C3 (as claimed): after Handle Missing Data no column of the cleaned table
\* holds a missing value: a missing entry of a numeric column has become the
\* column's median, one of another column "Not Specified", and the entries
\* that were present are unchanged.
C3_NoMissingAfterFill ==
    pc = "Final Cleaned Data" =>
        LET b == Rename(Table(Wanted, Raw.n), PresentMapping(Table(Wanted, Raw.n)))
        IN  /\ Missing(Clean) = {}
            /\ \A j \in DOMAIN b.cols : \A i \in 1..b.n :
                  Clean.cols[j].vals[i] =
                      IF ~IsNA(b.cols[j].vals[i]) THEN b.cols[j].vals[i]
                      ELSE IF IsNumericDtype(b.cols[j].dtype) THEN Median(b.cols[j].vals)
                      ELSE Str("Not Specified")

\* C4: after Drop Unwanted Columns the cleaned table has no column whose name
\* starts with "Unnamed", and has every other column of the raw table, in the
\* raw table's order, with its values and all the rows.
C4_DropKeepsTheRest ==
    pc = "Rename Columns" =>
        /\ \A j \in DOMAIN Clean.cols : ~StartsWith(Clean.cols[j].name, "Unnamed")
        /\ Clean.cols = Wanted
        /\ Clean.n = Raw.n

C4_Witness ==
    /\ pc = "Rename Columns"
    /\ \E j \in DOMAIN Raw.cols : StartsWith(Raw.cols[j].name, "Unnamed")
    /\ Len(Clean.cols) >= 2
    /\ Clean.n >= 1

\* The short name the Rename Columns step is to give a header.
ShortName(name) ==
    IF name = h_seen_films THEN "seen_films"
    ELSE IF name = h_is_fan THEN "is_fan"
    ELSE IF name = h_films_seen THEN "films_seen"
    ELSE IF name = h_film_ranking THEN "film_ranking"
    ELSE IF name = h_character_opinions THEN "character_opinions"
    ELSE name

\* C5: Rename Columns gives each of the five long headers present its short
\* name, leaves every other column's name as it is, raises nothing for a
\* header that is absent, and keeps the number and order of the columns and
\* every cell.
C5_RenameKnownHeaders ==
    pc = "Handle Missing Data" =>
        /\ status = "running"
        /\ Len(Clean.cols) = Len(Wanted)
        /\ Clean.n = Raw.n
        /\ \A j \in DOMAIN Wanted :
              /\ Clean.cols[j].name = ShortName(Wanted[j].name)
              /\ Clean.cols[j].vals = Wanted[j].vals
              /\ Clean.cols[j].dtype = Wanted[j].dtype

C5_Witness ==
    /\ pc = "Handle Missing Data"
    /\ HasColumn(Raw, h_film_ranking) /\ HasColumn(Clean, "film_ranking")
    /\ HasColumn(Raw, h_films_seen) /\ HasColumn(Clean, "films_seen")
    /\ HasColumn(Clean, "Gender")
    /\ ~HasColumn(Raw, h_is_fan)
    /\ Clean.n >= 1

\* The views that depend on a column: the step and the column.
ColumnViews ==
    {<<"Fan Analysis", "is_fan">>, <<"Film Viewing", "seen_films">>,
     <<"Film Ranking", "film_ranking">>,
     <<"Character Opinions", "character_opinions">>,
     <<"Predictive Modeling", "is_fan">>,
     <<"Geospatial Visualization", "Location (Census Region)">>}
    \cup {<<"Demographics", col>> : col \in Range(demographics)}
Placeholder(view) ==
    \E i \in DOMAIN out :
        /\ out[i].view = view[1] /\ out[i].arg = view[2]
        /\ out[i].text \in {NotFound, "No '{col}' column found."}

\* C6: for every column-dependent view that has run, the "not found" message
\* is on the page if and only if the column is absent from the cleaned table,
\* and the view's chart or model code has run if and only if it is present;
\* a view that has not run yet has written neither; and no exception is ever
\* raised at a view whose column is absent.
C6_PlaceholderIffAbsent ==
    "df_clean" \in defined =>
        \A view \in ColumnViews :
            /\ Placeholder(view) <=> (Ran(view[1]) /\ ~HasColumn(Clean, view[2]))
            /\ view \in charts <=> (Ran(view[1]) /\ HasColumn(Clean, view[2]))
            /\ (status = "raised" /\ pc = view[1]) => HasColumn(Clean, view[2])

C6_Witness ==
    /\ status = "done"
    /\ HasColumn(Clean, "is_fan") /\ HasColumn(Clean, "Gender")
    /\ ~HasColumn(Clean, "film_ranking")
    /\ Placeholder(<<"Film Ranking", "film_ranking">>)
    /\ Placeholder(<<"Geospatial Visualization", "Location (Census Region)">>)
    /\ <<"Predictive Modeling", "is_fan">> \in charts

\* The rows of the cleaned table the two selections keep.
Selected(t) ==
    Filter(t, [i \in 1..t.n |->
                 /\ HasColumn(t, "Gender") => Col(t, "Gender").vals[i] \in selected_genders
                 /\ HasColumn(t, "Age") => Col(t, "Age").vals[i] \in selected_ages])

\* C7: the table offered for download holds exactly the rows of the cleaned
\* table whose Gender is among the selected genders and whose Age is among the
\* selected ages (each filter only when its column exists), in the cleaned
\* table's order, with all its columns; with everything selected it holds
\* every row.
C7_DownloadIsTheSelection ==
    Completed("Enhanced Dashboard & Export") =>
        /\ heap[df_dashboard] = Selected(Clean)
        /\ Len(csv_data) = 1 + Selected(Clean).n
        /\ csv_data[1] = [j \in DOMAIN Clean.cols |-> Field(Clean.cols[j].name)]
        /\ \A i \in 1..Selected(Clean).n : \A j \in DOMAIN Clean.cols :
              csv_data[i + 1][j] =
                  FormatCell(Selected(Clean).cols[j].vals[i], Clean.cols[j].dtype)
        /\ ( /\ HasColumn(Clean, "Gender") => selected_genders = Unique(Clean, "Gender")
             /\ HasColumn(Clean, "Age") => selected_ages = Unique(Clean, "Age") )
           => heap[df_dashboard] = Clean

C7_Witness ==
    /\ Completed("Enhanced Dashboard & Export")
    /\ HasColumn(Clean, "Gender") /\ HasColumn(Clean, "Age")
    /\ selected_genders # {} /\ selected_ages # {}
    /\ heap[df_dashboard].n = 1
    /\ Clean.n = 2

\* C8: the raw table is never changed: at every step of the script, after the
\* drop, rename, fill, string-conversion and later tab steps, df_raw holds the
\* columns, names, rows and values load_data returned.
C8_RawUntouched ==
    ("df_raw" \in defined /\ df_raw # None) => Raw = load_data(file).df

C8_Witness ==
    /\ status = "done"
    /\ \E j \in DOMAIN Raw.cols : StartsWith(Raw.cols[j].name, "Unnamed")
    /\ Missing(Raw) # {}
    /\ Missing(Clean) = {}
    /\ Raw = load_data(file).df

\* C9: after the Data Cleaning tab the only change to the shared cleaned
\* table is the column film_ranking_numeric, which the Film Ranking view adds
\* when film_ranking is present; every other column and every row stays as
\* the Data Cleaning tab left it, and df_dashboard, df_model, df_geo and
\* cluster_data are objects of their own, never df_clean's.
C9_OnlyFilmRankingNumeric ==
    Completed("Final Cleaned Data") =>
        /\ Clean.n = cleaned.n
        /\ IF Ran("Film Ranking") /\ HasColumn(cleaned, "film_ranking")
           THEN /\ Len(Clean.cols) = Len(cleaned.cols) + 1
                /\ SubSeq(Clean.cols, 1, Len(cleaned.cols)) = cleaned.cols
                /\ Clean.cols[Len(Clean.cols)].name = "film_ranking_numeric"
           ELSE Clean = cleaned
        /\ \A r \in {df_dashboard, df_model, df_geo, cluster_data} :
              r # None => r \notin {df_clean, df_raw}

C9_Witness ==
    /\ status = "done"
    /\ HasColumn(Clean, "film_ranking_numeric")
    /\ df_dashboard # None /\ df_model # None /\ df_geo # None
    /\ Len(heap[df_model].cols) > Len(Clean.cols)
    /\ Len(heap[df_geo].cols) > Len(Clean.cols)

\* C10: whenever is_fan is present and the cleaned table has at least one
\* row, the predictor list, read after the 0/1 target is_fan_binary is added
\* to the model table, contains is_fan_binary: the list is not empty and the
\* "No numeric predictors" message is never written.
C10_TargetAmongPredictors ==
    /\ ("predictors" \in defined /\ cleaned.n >= 1) =>
          \E i \in DOMAIN predictors : predictors[i] = "is_fan_binary"
    /\ cleaned.n >= 1 =>
          \A i \in DOMAIN out :
              out[i].text # "No numeric predictors available for predictive modeling."

C10_Witness ==
    /\ "predictors" \in defined
    /\ cleaned.n >= 1
    /\ predictors = <<"is_fan_binary">>
    /\ Completed("Predictive Modeling")

====
